---- MODULE Spec2Model ----
(***************************************************************************)
(* Model of server/journal_gpt.py: the journal store on the Qdrant         *)
(* collection, store_journal_entry, get_relevant_entries (semantic search  *)
(* with the recency fallback) and analyze_personality_and_respond.         *)
(***************************************************************************)
EXTENDS Integers, Sequences, FiniteSets, TLC

\* ---------------------------------------------------------------- bounds
MaxEntries == 2      \* records the collection may hold in the model
MaxClock == 1        \* last second of the modelled wall clock
MaxLimit == 1        \* largest limit passed to get_relevant_entries
MaxNegLimit == 1     \* limits range over -MaxNegLimit .. MaxLimit
MaxTextLen == 2      \* pieces of one entry text handed to the join
MaxContextEntries == 2   \* entries handed to the join

\* ------------------------------------------------------ program constants
EMBEDDING_DIM == 1536
ScrollLimit == 100
AskLimit == 8

Users == {"u1", "u2"}
Texts == {"", "a", "b"}
Queries == {"a"}
Ids == 1 .. MaxEntries
Limits == (0 - MaxNegLimit) .. MaxLimit
Sentinel == "I don't have enough journal entries from you yet"

VARIABLES
    store,     \* the "journals" collection: point id -> payload and vector
    issued,    \* the uuid4 values handed out so far
    clock,     \* int(time.time())
    pc,        \* "idle", or "scrolled": a retrieval between its two index calls
    frame,     \* the retrieval in flight: its arguments and all_user_entries
    last,      \* what the observed caller's last completed call did and returned
    chat,      \* start_personality_chat: "Idle", "AwaitingInput", "Processing", "Exited"
    collection, \* the index's view of the "journals" collection
    boot,      \* per process: how far the module-level bootstrap has run
    menu,      \* main_menu: "Menu", "Chat", "Exited", "Crashed"
    context    \* the entries handed to the join and the journal_context built

vars == <<store, issued, clock, pc, frame, last, chat,
          collection, boot, menu, context>>

\* What the store, retrieval and chat operations leave alone.
env == <<collection, boot, menu, context>>

\* ---------------------------------------------------- helper operators
Min(a, b) == IF a < b THEN a ELSE b
Max(a, b) == IF a > b THEN a ELSE b
Abs(a) == IF a < 0 THEN 0 - a ELSE a
Take(s, n) == SubSeq(s, 1, Min(Max(n, 0), Len(s)))

\* Python's s[:n]: a negative n counts from the end.
PySliceTo(s, n) == IF n >= 0 THEN Take(s, n) ELSE Take(s, Len(s) + n)

\* The embedding provider: text -> vector of EMBEDDING_DIM components, here
\* reduced to the vector's direction.
Direction(t) == CASE t = "" -> 0 [] t = "a" -> 1 [] t = "b" -> 2
Embed(t) == [dim |-> EMBEDDING_DIM, dir |-> Direction(t)]

NoVector == [dim |-> 0, dir |-> 0]

\* A stored point as the client reads it back.
Point(id) == [id |-> id] @@ store[id]

RECURSIVE OrderById(_)
OrderById(S) ==
    IF S = {} THEN <<>>
    ELSE LET m == CHOOSE x \in S : \A y \in S : x <= y
         IN <<m>> \o OrderById(S \ {m})

\* qdrant.scroll with the must-filter on metadata.user_id and metadata.type.
ScrollMatches(u) ==
    {id \in DOMAIN store : store[id].user_id = u /\ store[id].type = "journal"}

Scroll(u) ==
    LET ordered == OrderById(ScrollMatches(u))
    IN [i \in 1 .. Min(ScrollLimit, Len(ordered)) |-> Point(ordered[i])]

\* Variant: the similarity search filters on the type only.
SearchMatchesAnyUser(u) ==
    {id \in DOMAIN store : store[id].type = "journal"}

\* The langchain filter {"user_id": u, "type": "journal"} of similarity_search.
SearchMatches(u) ==
    {id \in DOMAIN store : store[id].user_id = u /\ store[id].type = "journal"}

Distance(qv, id) == Abs(store[id].vector.dir - qv.dir)

RECURSIVE RankBySimilarity(_, _)
RankBySimilarity(qv, S) ==
    IF S = {} THEN <<>>
    ELSE LET m == CHOOSE x \in S : \A y \in S :
                      \/ Distance(qv, x) < Distance(qv, y)
                      \/ Distance(qv, x) = Distance(qv, y) /\ x <= y
         IN <<m>> \o RankBySimilarity(qv, S \ {m})

\* vectorstore.similarity_search(query, k, filter): the k nearest matching
\* documents, nearest first.
SimilaritySearch(qv, u, k) ==
    LET ranked == RankBySimilarity(qv, SearchMatches(u))
    IN [i \in 1 .. Min(Max(k, 0), Len(ranked)) |-> Point(ranked[i])]

PageContents(points) == [i \in 1 .. Len(points) |-> points[i].page_content]

\* sorted(..., key=timestamp, reverse=True): stable, so entries of one second
\* keep the order the scroll gave them.
InsertRecent(sorted, x) ==
    LET ahead == {i \in 1 .. Len(sorted) : sorted[i].timestamp >= x.timestamp}
        n == Cardinality(ahead)
    IN SubSeq(sorted, 1, n) \o <<x>> \o SubSeq(sorted, n + 1, Len(sorted))

RECURSIVE SortRecent(_)
SortRecent(entries) ==
    IF entries = <<>> THEN <<>>
    ELSE InsertRecent(SortRecent(SubSeq(entries, 1, Len(entries) - 1)),
                      entries[Len(entries)])

HasText(t) == t # ""

\* Variant: entries without text are dropped before the cut to limit.
FallbackSkipFirst(entries, limit) ==
    PySliceTo(SelectSeq(PageContents(SortRecent(entries)), HasText), limit)

\* The except branch of get_relevant_entries.
Fallback(entries, limit) ==
    LET recent_entries == PySliceTo(SortRecent(entries), limit)
    IN SelectSeq(PageContents(recent_entries), HasText)

\* ------------------------------------------------------------ call records
\* The five fields the feedback prompt asks for, and the largest clarityScore.
FeedbackFields == {"mood", "clarityScore", "summary", "insight", "suggestedAction"}
MaxClarity == 10

\* message.content of a completion: whether it is a JSON object, the keys it
\* has and the number under clarityScore.
NoContent == [json |-> FALSE, fields |-> {}, clarityScore |-> 0]

\* The processes that import the module, and the bootstrap of one of them.
Procs == {"p1", "p2"}
NotStarted == [pc |-> "start", listed |-> FALSE]
Ready == [pc |-> "ready", listed |-> TRUE]

\* The collection once a bootstrap has created it.
Bootstrapped == [exists |-> TRUE, dim |-> EMBEDDING_DIM, preexisting |-> FALSE,
                 creates |-> 1]

NoContext == [entries |-> <<>>, built |-> FALSE, journal_context |-> <<>>]

Blank ==
    [op |-> "none", user |-> "none", text |-> "", limit |-> 0,
     status |-> "ok", error |-> "none", id |-> 0,
     result |-> <<>>, path |-> "none", reply |-> "none",
     embedCalls |-> 0, completionCalls |-> 0,
     scanFault |-> FALSE, embedFault |-> FALSE, searchFault |-> FALSE,
     fetched |-> <<>>, before |-> << >>,
     content |-> NoContent, completionFault |-> FALSE, storeCalls |-> 0]

NoFrame == [op |-> "none", user |-> "none", query |-> "", limit |-> 0,
            fetched |-> <<>>]

Init ==
    /\ store = << >>
    /\ issued = {}
    /\ clock = 0
    /\ pc = "idle"
    /\ frame = NoFrame
    /\ last = Blank
    /\ chat = "Idle"
    /\ collection = Bootstrapped
    /\ boot = [p \in Procs |-> Ready]
    /\ menu = "Menu"
    /\ context = NoContext

\* time passes between calls
Tick ==
    /\ clock < MaxClock
    /\ clock' = clock + 1
    /\ UNCHANGED <<store, issued, pc, frame, last, chat>>
    /\ UNCHANGED env

\* ------------------------------------------------------ store_journal_entry
\* Variant: the id is not fresh (it may repeat an id already handed out).
AnyId == Ids

\* uuid.uuid4(): a value no earlier call generated.
NewIds == Ids \ issued

\* Variant: the upsert replaces the collection by the new point.
UpsertDroppingOthers(id, rec) == [x \in {id} |-> rec]

\* qdrant upsert of one point under a new id: the other points stay.
Upsert(id, rec) ==
    [x \in DOMAIN store \cup {id} |-> IF x = id THEN rec ELSE store[x]]

\* Variant: the point is written before its text is embedded.
AddTextsUpsertFirst(id, u, t, embedOk, upsertOk) ==
    IF ~upsertOk
    THEN [status |-> "raised", error |-> "IndexError", store |-> store]
    ELSE LET written(v) ==
                 [x \in DOMAIN store \cup {id} |->
                    IF x = id
                    THEN [user_id |-> u, timestamp |-> clock,
                          type |-> "journal", page_content |-> t, vector |-> v]
                    ELSE store[x]]
         IN IF embedOk
            THEN [status |-> "ok", error |-> "none", store |-> written(Embed(t))]
            ELSE [status |-> "raised", error |-> "EmbeddingError",
                  store |-> written(NoVector)]

\* vectorstore.add_texts: embeds the text, then upserts the point.
AddTexts(id, u, t, embedOk, upsertOk) ==
    IF ~embedOk
    THEN [status |-> "raised", error |-> "EmbeddingError", store |-> store]
    ELSE IF ~upsertOk
    THEN [status |-> "raised", error |-> "IndexError", store |-> store]
    ELSE [status |-> "ok", error |-> "none",
          store |-> Upsert(id, [user_id |-> u, timestamp |-> clock,
                                type |-> "journal", page_content |-> t,
                                vector |-> Embed(t)])]

store_journal_entry(u, t, embedOk, upsertOk) ==
    /\ NewIds # {}
    /\ \E point_id \in NewIds :
         LET r == AddTexts(point_id, u, t, embedOk, upsertOk)
         IN /\ issued' = IF r.status = "ok" THEN issued \cup {point_id}
                                              ELSE issued
            /\ store' = r.store
            \* a store that runs while the observed retrieval is in flight
            \* is another caller's: only its effect on the collection shows
            /\ last' = IF pc = "scrolled" THEN last
                       ELSE [Blank EXCEPT !.op = "store", !.user = u,
                                          !.text = t, !.status = r.status,
                                          !.error = r.error,
                                          !.id = IF r.status = "ok"
                                                 THEN point_id ELSE 0,
                                          !.embedCalls = 1,
                                          !.embedFault = ~embedOk,
                                          !.before = store]
    /\ UNCHANGED <<clock, pc, frame, chat>>
    /\ UNCHANGED env

\* ----------------------------------------------------- get_relevant_entries
\* Variant: the except clause catches index errors only, an embedding
\* failure leaves get_relevant_entries.
SemanticOrFallbackNarrowCatch(u, q, limit, all_user_entries, embedOk, searchOk) ==
    IF ~embedOk
    THEN [status |-> "raised", error |-> "EmbeddingError", path |-> "none",
          result |-> <<>>]
    ELSE IF searchOk
    THEN [status |-> "ok", error |-> "none", path |-> "semantic",
          result |-> PageContents(
                        SimilaritySearch(Embed(q), u,
                                         Min(limit, Len(all_user_entries))))]
    ELSE [status |-> "ok", error |-> "none", path |-> "fallback",
          result |-> Fallback(all_user_entries, limit)]

\* The try block and its except branch, given all_user_entries (non-empty).
\* The query is embedded inside similarity_search, before the index is asked.
SemanticOrFallback(u, q, limit, all_user_entries, embedOk, searchOk) ==
    IF embedOk /\ searchOk
    THEN [status |-> "ok", error |-> "none", path |-> "semantic",
          result |-> PageContents(
                        SimilaritySearch(Embed(q), u,
                                         Min(limit, Len(all_user_entries))))]
    ELSE [status |-> "ok", error |-> "none", path |-> "fallback",
          result |-> Fallback(all_user_entries, limit)]

\* Variant: no check for an empty retrieval, the prompt is always sent.
analyze_without_empty_check(relevant_entries, completionOk) ==
    IF completionOk
    THEN [status |-> "ok", error |-> "none", reply |-> "generated",
          completionCalls |-> 1]
    ELSE [status |-> "raised", error |-> "GenerationError", reply |-> "none",
          completionCalls |-> 1]

\* Variant: the fixed reply is given whenever no retrieved text has content.
analyze_sentinel_when_textless(relevant_entries, completionOk) ==
    IF \A i \in 1 .. Len(relevant_entries) : relevant_entries[i] = ""
    THEN [status |-> "ok", error |-> "none", reply |-> Sentinel,
          completionCalls |-> 0]
    ELSE IF completionOk
    THEN [status |-> "ok", error |-> "none", reply |-> "generated",
          completionCalls |-> 1]
    ELSE [status |-> "raised", error |-> "GenerationError", reply |-> "none",
          completionCalls |-> 1]

\* Variant: a failed completion is tried a second time, which answers.
analyze_with_retry(relevant_entries, completionOk) ==
    IF relevant_entries = <<>>
    THEN [status |-> "ok", error |-> "none", reply |-> Sentinel,
          completionCalls |-> 0]
    ELSE IF completionOk
    THEN [status |-> "ok", error |-> "none", reply |-> "generated",
          completionCalls |-> 1]
    ELSE [status |-> "ok", error |-> "none", reply |-> "generated",
          completionCalls |-> 2]

\* analyze_personality_and_respond once get_relevant_entries has returned.
analyze_personality_and_respond(relevant_entries, completionOk) ==
    IF relevant_entries = <<>>
    THEN [status |-> "ok", error |-> "none", reply |-> Sentinel,
          completionCalls |-> 0]
    ELSE IF completionOk
    THEN [status |-> "ok", error |-> "none", reply |-> "generated",
          completionCalls |-> 1]
    ELSE [status |-> "raised", error |-> "GenerationError", reply |-> "none",
          completionCalls |-> 1]

\* What the caller of the operation sees once the retrieval has returned.
Returned(op, base, relevant_entries, completionOk) ==
    IF op \in {"ask", "chat"}
    THEN LET a == analyze_personality_and_respond(relevant_entries, completionOk)
         IN [base EXCEPT !.result = relevant_entries, !.status = a.status,
                         !.error = a.error, !.reply = a.reply,
                         !.completionCalls = a.completionCalls,
                         !.completionFault =
                             relevant_entries # <<>> /\ ~completionOk]
    ELSE [base EXCEPT !.result = relevant_entries]

\* Step 1: the scroll of the user's entries and the early return.
ScrollStep(op, u, q, limit, scanOk, completionOk) ==
    /\ pc = "idle"
    /\ LET base == [Blank EXCEPT !.op = op, !.user = u, !.text = q,
                                 !.limit = limit]
       IN IF ~scanOk
          THEN /\ last' = [base EXCEPT !.status = "raised",
                                       !.error = "IndexError",
                                       !.scanFault = TRUE]
               /\ UNCHANGED <<pc, frame>>
          ELSE IF Scroll(u) = <<>>
          THEN /\ last' = Returned(op, [base EXCEPT !.path = "empty"], <<>>,
                                   completionOk)
               /\ UNCHANGED <<pc, frame>>
          ELSE /\ pc' = "scrolled"
               /\ frame' = [op |-> op, user |-> u, query |-> q,
                            limit |-> limit, fetched |-> Scroll(u)]
               /\ last' = Blank
    /\ UNCHANGED <<store, issued, clock>>
    /\ UNCHANGED env

get_relevant_entries_scroll(u, q, limit, scanOk) ==
    /\ ScrollStep("search", u, q, limit, scanOk, TRUE)
    /\ UNCHANGED chat

\* analyze_personality_and_respond up to the scroll of its retrieval.
analyze_personality_scroll(u, q, scanOk) ==
    /\ ScrollStep("ask", u, q, AskLimit, scanOk, TRUE)
    /\ UNCHANGED chat

\* Variant: the input is used as typed, without strip().
StripNothing(s) == s

\* str.strip() and str.lower() on the modelled inputs
Strip(s) == CASE s = " bye" -> "bye" [] s = " " -> "" [] s = " a" -> "a"
              [] OTHER -> s
Lower(s) == CASE s = "Exit" -> "exit" [] OTHER -> s

\* Variant: no try/except around the turn, an error ends the loop.
AfterTurnUncaught(status) ==
    IF status = "raised" THEN "Exited" ELSE "AwaitingInput"

\* The try/except around the turn in start_personality_chat: the answer is
\* printed, or the error is, and the loop goes on to the next input().
AfterTurn(status) == "AwaitingInput"

\* Step 2: the similarity search, or the fallback when it raises.
get_relevant_entries_search(embedOk, searchOk, completionOk) ==
    /\ pc = "scrolled"
    /\ LET r == SemanticOrFallback(frame.user, frame.query, frame.limit,
                                   frame.fetched, embedOk, searchOk)
           base == [Blank EXCEPT !.op = frame.op, !.user = frame.user,
                                 !.text = frame.query, !.limit = frame.limit,
                                 !.path = r.path, !.embedCalls = 1,
                                 !.embedFault = ~embedOk,
                                 !.searchFault = embedOk /\ ~searchOk,
                                 !.fetched = frame.fetched]
       IN last' = IF r.status = "raised"
                  THEN [base EXCEPT !.status = "raised", !.error = r.error]
                  ELSE Returned(frame.op, base, r.result, completionOk)
    /\ pc' = "idle"
    /\ frame' = NoFrame
    /\ chat' = IF frame.op = "chat" THEN AfterTurn(last'.status) ELSE chat
    /\ UNCHANGED <<store, issued, clock>>
    /\ UNCHANGED env

\* ------------------------------------------------- start_personality_chat
SessionUser == "u1"      \* os.getenv("USER_ID"), fixed for the process
Tokens == {"quit", "Exit", " bye", "", " ", "a", " a"}

start_personality_chat ==
    /\ chat = "Idle"
    /\ chat' = "AwaitingInput"
    /\ UNCHANGED <<store, issued, clock, pc, frame, last>>
    /\ UNCHANGED env

\* One pass of the while loop up to the scroll of the turn's retrieval.
chat_input(token, scanOk) ==
    /\ chat = "AwaitingInput"
    /\ pc = "idle"
    /\ LET user_question == Strip(token)
       IN IF Lower(user_question) \in {"quit", "exit", "bye"}
          THEN /\ chat' = "Exited"
               /\ last' = [Blank EXCEPT !.op = "quit", !.text = token]
               /\ UNCHANGED <<store, issued, clock, pc, frame>>
               /\ UNCHANGED env
          ELSE IF user_question = ""
          THEN /\ last' = [Blank EXCEPT !.op = "empty", !.text = token]
               /\ UNCHANGED <<store, issued, clock, pc, frame, chat>>
               /\ UNCHANGED env
          ELSE /\ ScrollStep("chat", SessionUser, user_question, AskLimit,
                             scanOk, TRUE)
               /\ chat' = IF pc' = "scrolled" THEN "Processing"
                          ELSE AfterTurn(last'.status)

\* --------------------------------------------------- module-level bootstrap
\* Vector sizes a collection named "journals" may have been created with.
Dims == {EMBEDDING_DIM, 768}

Absent == [exists |-> FALSE, dim |-> 0, preexisting |-> FALSE, creates |-> 0]
Existing(d) == [exists |-> TRUE, dim |-> d, preexisting |-> TRUE, creates |-> 0]

\* A point an earlier run left in a collection of vector size d.
Leftover(d) ==
    [user_id |-> "u1", timestamp |-> 0, type |-> "journal",
     page_content |-> "a", vector |-> [dim |-> d, dir |-> Direction("a")]]

\* The processes are started against an index that has no "journals"
\* collection, or has one, empty or not.
InitBoot ==
    /\ collection \in {Absent} \cup {Existing(d) : d \in Dims}
    /\ store \in IF collection.exists
                 THEN {<< >>, [x \in {1} |-> Leftover(collection.dim)]}
                 ELSE {<< >>}
    /\ issued = DOMAIN store
    /\ clock = 0
    /\ pc = "idle"
    /\ frame = NoFrame
    /\ last = Blank
    /\ chat = "Idle"
    /\ boot = [p \in Procs |-> NotStarted]
    /\ menu = "Menu"
    /\ context = NoContext

\* collections = qdrant.get_collections().collections
boot_get_collections(p) ==
    /\ boot[p].pc = "start"
    /\ boot' = [boot EXCEPT ![p] = [pc |-> "listed",
                                    listed |-> collection.exists]]
    /\ UNCHANGED <<store, issued, clock, pc, frame, last, chat,
                   collection, menu, context>>

\* The rest of the bootstrap: create_collection unless the name was listed,
\* then the Qdrant vectorstore object. create_collection of a name the
\* index already holds is refused by the index and raises.
boot_create_collection(p) ==
    /\ boot[p].pc = "listed"
    /\ IF boot[p].listed
       THEN /\ boot' = [boot EXCEPT ![p] = Ready]
            /\ UNCHANGED collection
       ELSE IF collection.exists
       THEN /\ boot' = [boot EXCEPT ![p] = [pc |-> "failed", listed |-> FALSE]]
            /\ UNCHANGED collection
       ELSE /\ collection' = [exists |-> TRUE, dim |-> EMBEDDING_DIM,
                              preexisting |-> FALSE,
                              creates |-> collection.creates + 1]
            /\ boot' = [boot EXCEPT ![p] = [pc |-> "ready", listed |-> FALSE]]
    /\ UNCHANGED <<store, issued, clock, pc, frame, last, chat, menu, context>>

\* The index takes a point or a query vector only if it has the size the
\* collection was created with.
DimOk == collection.dim = EMBEDDING_DIM

\* The operations of a process whose import of the module has completed.
boot_store(p, u, t, embedOk, upsertOk) ==
    /\ boot[p].pc = "ready"
    /\ store_journal_entry(u, t, embedOk, upsertOk /\ DimOk)

boot_scroll(p, u, q, limit, scanOk) ==
    /\ boot[p].pc = "ready"
    /\ get_relevant_entries_scroll(u, q, limit, scanOk)

boot_search(embedOk, searchOk) ==
    get_relevant_entries_search(embedOk, searchOk /\ DimOk, TRUE)

\* ------------------------------------------- the journal_context of a prompt
\* An entry text as the join sees it: a sequence of pieces, each a stretch
\* of plain text or an occurrence of the separator string.
Separator == "\n\n---\n\n"
Pieces == {"x", Separator}
EntryTexts == UNION {[1 .. k -> Pieces] : k \in 0 .. MaxTextLen}
\* relevant_entries where the join is reached: not empty
EntryLists == UNION {[1 .. k -> EntryTexts] : k \in 1 .. MaxContextEntries}

\* "\n\n---\n\n".join(relevant_entries)
RECURSIVE Join(_)
Join(entries) ==
    IF entries = <<>> THEN <<>>
    ELSE IF Len(entries) = 1 THEN entries[1]
    ELSE entries[1] \o <<Separator>> \o Join(Tail(entries))

InitContext ==
    /\ store = << >>
    /\ issued = {}
    /\ clock = 0
    /\ pc = "idle"
    /\ frame = NoFrame
    /\ last = Blank
    /\ chat = "Idle"
    /\ collection = Bootstrapped
    /\ boot = [p \in Procs |-> Ready]
    /\ menu = "Menu"
    /\ context \in {[entries |-> e, built |-> FALSE, journal_context |-> <<>>] :
                      e \in EntryLists}

build_context ==
    /\ ~context.built
    /\ context' = [context EXCEPT !.built = TRUE,
                                  !.journal_context = Join(context.entries)]
    /\ UNCHANGED <<store, issued, clock, pc, frame, last, chat,
                   collection, boot, menu>>

SpecContext == InitContext /\ [][build_context]_vars

\* ---------------------------------------------------------- get_ai_feedback
\* Contents the completion provider may generate for the feedback prompt: the
\* object asked for, one with a score out of range, one with a key missing,
\* and text that is no JSON at all.
Completions ==
    {[json |-> TRUE, fields |-> FeedbackFields, clarityScore |-> 0],
     [json |-> TRUE, fields |-> FeedbackFields, clarityScore |-> MaxClarity],
     [json |-> TRUE, fields |-> FeedbackFields, clarityScore |-> MaxClarity + 1],
     [json |-> TRUE, fields |-> FeedbackFields \ {"insight"},
      clarityScore |-> MaxClarity],
     [json |-> FALSE, fields |-> {}, clarityScore |-> 0]}

\* The outcomes of the completion call: it answers with some content, or
\* it raises.
FeedbackOutcomes ==
    {[content |-> c, completionOk |-> TRUE] : c \in Completions}
        \cup {[content |-> NoContent, completionOk |-> FALSE]}

\* client.chat.completions.create and `return ...message.content`: the
\* content is handed back as it came.
Feedback(content, completionOk) ==
    IF completionOk
    THEN [status |-> "ok", error |-> "none", content |-> content,
          completionCalls |-> 1]
    ELSE [status |-> "raised", error |-> "GenerationError",
          content |-> NoContent, completionCalls |-> 1]

get_ai_feedback(journal_text, content, completionOk) ==
    /\ pc = "idle"
    /\ LET r == Feedback(content, completionOk)
       IN last' = [Blank EXCEPT !.op = "feedback", !.text = journal_text,
                                !.status = r.status, !.error = r.error,
                                !.content = r.content,
                                !.completionCalls = r.completionCalls,
                                !.completionFault = ~completionOk]
    /\ UNCHANGED <<store, issued, clock, pc, frame, chat>>
    /\ UNCHANGED env

\* -------------------------------------------------------------- main_menu
Choices == {"1", "2", "3", "4", ""}

\* Choice "1" once the entry has been read: get_ai_feedback, then
\* store_journal_entry; an exception of either leaves main_menu.
WriteEntry(journal_input, content, completionOk, embedOk, upsertOk) ==
    LET ai_reply == Feedback(content, completionOk)
        base == [Blank EXCEPT !.op = "journal", !.user = SessionUser,
                              !.text = journal_input,
                              !.completionCalls = ai_reply.completionCalls,
                              !.completionFault = ~completionOk,
                              !.content = ai_reply.content,
                              !.before = store]
    IN IF ai_reply.status = "raised"
       THEN /\ last' = [base EXCEPT !.status = "raised",
                                    !.error = ai_reply.error]
            /\ menu' = "Crashed"
            /\ UNCHANGED <<store, issued>>
       ELSE /\ NewIds # {}
            /\ \E point_id \in NewIds :
                 LET r == AddTexts(point_id, SessionUser, journal_input,
                                   embedOk, upsertOk)
                 IN /\ store' = r.store
                    /\ issued' = IF r.status = "ok"
                                  THEN issued \cup {point_id} ELSE issued
                    /\ last' = [base EXCEPT !.status = r.status,
                                            !.error = r.error,
                                            !.id = IF r.status = "ok"
                                                   THEN point_id ELSE 0,
                                            !.storeCalls = 1,
                                            !.embedCalls = 1,
                                            !.embedFault = ~embedOk]
                    /\ menu' = IF r.status = "raised" THEN "Crashed"
                                                      ELSE "Menu"

\* One pass of the while loop of main_menu, up to the next prompt or, for
\* choice "2", up to the first prompt of the chat.
main_menu(choice, journal_input, content, completionOk, embedOk, upsertOk) ==
    /\ menu = "Menu"
    /\ IF Strip(choice) = "1"
       THEN IF journal_input = ""
            THEN /\ last' = [Blank EXCEPT !.op = "noentry"]
                 /\ UNCHANGED <<store, issued, menu, chat>>
            ELSE /\ WriteEntry(journal_input, content, completionOk,
                               embedOk, upsertOk)
                 /\ UNCHANGED chat
       ELSE IF Strip(choice) = "2"
       THEN /\ menu' = "Chat"
            /\ chat' = "AwaitingInput"
            /\ UNCHANGED <<store, issued, last>>
       ELSE IF Strip(choice) = "3"
       THEN /\ menu' = "Exited"
            /\ UNCHANGED <<store, issued, last, chat>>
       ELSE /\ last' = [Blank EXCEPT !.op = "invalid", !.text = choice]
            /\ UNCHANGED <<store, issued, menu, chat>>
    /\ UNCHANGED <<clock, pc, frame, collection, boot, context>>

\* start_personality_chat returns after its break: back to the menu prompt.
chat_returns ==
    /\ menu = "Chat"
    /\ chat = "Exited"
    /\ menu' = "Menu"
    /\ chat' = "Idle"
    /\ UNCHANGED <<store, issued, clock, pc, frame, last,
                   collection, boot, context>>

\* The outcomes of the provider and index calls of one operation. A call
\* that is not reached (the upsert or the search after a failed embedding)
\* has no outcome of its own.
StoreFaults ==
    {f \in [embedOk : BOOLEAN, upsertOk : BOOLEAN] : f.embedOk \/ f.upsertOk}
SearchFaults ==
    {f \in [embedOk : BOOLEAN, searchOk : BOOLEAN] : f.embedOk \/ f.searchOk}

Next ==
    \/ Tick
    \/ \E u \in Users, t \in Texts, f \in StoreFaults :
          store_journal_entry(u, t, f.embedOk, f.upsertOk)
    \/ \E u \in Users, q \in Queries, limit \in Limits, scanOk \in BOOLEAN :
          get_relevant_entries_scroll(u, q, limit, scanOk)
    \/ \E u \in Users, q \in Queries, scanOk \in BOOLEAN :
          analyze_personality_scroll(u, q, scanOk)
    \/ \E f \in SearchFaults, completionOk \in BOOLEAN :
          get_relevant_entries_search(f.embedOk, f.searchOk, completionOk)

Spec == Init /\ [][Next]_vars

\* Two processes importing the module, and what they do once imported.
NextBoot ==
    \/ \E p \in Procs : boot_get_collections(p)
    \/ \E p \in Procs : boot_create_collection(p)
    \/ \E p \in Procs, u \in Users, t \in Texts, f \in StoreFaults :
          boot_store(p, u, t, f.embedOk, f.upsertOk)
    \/ \E p \in Procs, u \in Users, q \in Queries, limit \in Limits,
          scanOk \in BOOLEAN :
          boot_scroll(p, u, q, limit, scanOk)
    \/ \E f \in SearchFaults : boot_search(f.embedOk, f.searchOk)

SpecBoot == InitBoot /\ [][NextBoot]_vars

\* The driver: one process in main_menu.
NextMenu ==
    \/ Tick
    \/ \E choice \in Choices, t \in Texts, content \in Completions,
          completionOk \in BOOLEAN, f \in StoreFaults :
          main_menu(choice, t, content, completionOk, f.embedOk, f.upsertOk)
    \/ \E token \in Tokens, scanOk \in BOOLEAN : chat_input(token, scanOk)
    \/ \E f \in SearchFaults, completionOk \in BOOLEAN :
          get_relevant_entries_search(f.embedOk, f.searchOk, completionOk)
    \/ chat_returns

SpecMenu == Init /\ [][NextMenu]_vars

\* The four operations of the module: store, search, feedback and ask, on
\* a text without content and one with.
ApiTexts == {"", "a"}

NextApi ==
    \/ Tick
    \/ \E u \in Users, t \in ApiTexts, f \in StoreFaults :
          store_journal_entry(u, t, f.embedOk, f.upsertOk)
    \/ \E u \in Users, q \in Queries, limit \in Limits, scanOk \in BOOLEAN :
          get_relevant_entries_scroll(u, q, limit, scanOk)
    \/ \E u \in Users, q \in Queries, scanOk \in BOOLEAN :
          analyze_personality_scroll(u, q, scanOk)
    \/ \E f \in SearchFaults, completionOk \in BOOLEAN :
          get_relevant_entries_search(f.embedOk, f.searchOk, completionOk)
    \/ \E t \in ApiTexts, r \in FeedbackOutcomes :
          get_ai_feedback(t, r.content, r.completionOk)

SpecApi == Init /\ [][NextApi]_vars

\* The interactive session on top of the store.
NextChat ==
    \/ Tick
    \/ \E u \in Users, t \in Texts, f \in StoreFaults :
          store_journal_entry(u, t, f.embedOk, f.upsertOk)
    \/ start_personality_chat
    \/ \E token \in Tokens, scanOk \in BOOLEAN : chat_input(token, scanOk)
    \/ \E f \in SearchFaults, completionOk \in BOOLEAN :
          get_relevant_entries_search(f.embedOk, f.searchOk, completionOk)

SpecChat == Init /\ [][NextChat]_vars

\* ------------------------------------------------------------- properties
Retrieval == {"search", "ask", "chat"}
EntryCount(u) == Cardinality(ScrollMatches(u))
TextsOf(u) == {store[id].page_content : id \in ScrollMatches(u)}
OthersTexts(u) ==
    {store[id].page_content : id \in DOMAIN store \ ScrollMatches(u)}

\* C1: cross-user isolation. Every text a retrieval for user u returns, on the
\* semantic path and on the fallback path, is the text of an entry owned by
\* u; the filter acts on the candidates before the truncation to k, so the
\* semantic path returns k texts whatever other users have stored.
C1_CrossUserIsolation ==
    (last.op \in Retrieval /\ last.status = "ok") =>
        /\ \A i \in 1 .. Len(last.result) : last.result[i] \in TextsOf(last.user)
        /\ last.path = "semantic" =>
               Len(last.result) = Max(0, Min(last.limit, Len(last.fetched)))

C1_Witness ==
    /\ last.op = "search"
    /\ last.path = "semantic"
    /\ last.result # <<>>
    /\ OthersTexts(last.user) \ TextsOf(last.user) # {}

\* C2: result size bound. For every limit (positive, zero or negative) a
\* search returns at most min(limit, entryCount(u)) texts, none when that
\* minimum is not positive, whether or not the similarity search fails.
C2_ResultSizeBound ==
    (last.op = "search" /\ last.status = "ok") =>
        Len(last.result) <= Max(0, Min(last.limit, EntryCount(last.user)))

\* C3: a search with limit <= 0 returns the empty result and makes no call to
\* the embedding provider, for users with and without entries.
C3_NonPositiveLimit ==
    (last.op = "search" /\ last.limit <= 0) =>
        /\ last.embedCalls = 0
        /\ last.status = "ok" => last.result = <<>>

\* C4: recency fallback. When the semantic attempt raises, the result is the
\* texts of the entries fetched in step 1, sorted by timestamp descending and
\* cut to the first `limit` of them (entries without text left out).
C4_RecencyFallback ==
    (last.op = "search" /\ last.path = "fallback") =>
        /\ last.status = "ok"
        /\ last.result =
              SelectSeq(PageContents(Take(SortRecent(last.fetched), last.limit)),
                        HasText)

\* C5: analyze_personality_and_respond for a user without entries makes no
\* call to the completion provider and none to the embedding provider, and
\* whenever the scroll of the user's entries returns, the call returns the
\* sentinel as a normal value.
C5_SentinelWithoutEntries ==
    (last.op \in {"ask", "chat"} /\ EntryCount(last.user) = 0) =>
        /\ last.completionCalls = 0
        /\ last.embedCalls = 0
        /\ ~last.scanFault => (last.status = "ok" /\ last.reply = Sentinel)

C5_Witness ==
    /\ last.op = "ask"
    /\ EntryCount(last.user) = 0
    /\ last.reply = Sentinel
    /\ store # << >>

\* C6: store_journal_entry is not idempotent. Every successful call returns
\* an id the collection did not hold, adds one record under it with the
\* caller's user and text, retrievable for that user, and keeps every record
\* that was there, also when the same user had stored the same text before.
C6_NotIdempotent ==
    (last.op = "store" /\ last.status = "ok") =>
        /\ last.id \notin DOMAIN last.before
        /\ last.id \in ScrollMatches(last.user)
        /\ store[last.id].page_content = last.text
        /\ DOMAIN store = DOMAIN last.before \cup {last.id}
        /\ \A x \in DOMAIN last.before : store[x] = last.before[x]

C6_Witness ==
    /\ last.op = "store"
    /\ last.status = "ok"
    /\ \E x \in DOMAIN last.before :
          /\ last.before[x].user_id = last.user
          /\ last.before[x].page_content = last.text

\* C7: no partial writes. A store_journal_entry whose embedding fails raises
\* and leaves the collection as it was; every failed call does; and every
\* record of the collection carries a vector of EMBEDDING_DIM components.
C7_NoPartialWrites ==
    /\ (last.op = "store" /\ last.embedFault) =>
           (last.status = "raised" /\ last.error = "EmbeddingError")
    /\ (last.op = "store" /\ last.status = "raised") => store = last.before
    /\ \A id \in DOMAIN store : store[id].vector.dim = EMBEDDING_DIM

C7_Witness ==
    /\ last.op = "store"
    /\ last.embedFault
    /\ last.status = "raised"
    /\ store # << >>

\* C8: the retriever never surfaces an index fault: a search in which the
\* scroll or the similarity search fails still returns a result.
C8_IndexFaultRecovered ==
    (last.op = "search" /\ (last.scanFault \/ last.searchFault)) =>
        last.status = "ok"

\* C9 as stated: a failure to embed the query surfaces to the caller of
\* search, and no recency-ranked result is returned in its place.
C9_EmbeddingFaultSurfaces ==
    (last.op = "search" /\ last.embedFault) =>
        (last.status = "raised" /\ last.error = "EmbeddingError")

\* C9 amended: a failure to embed the query is caught like any other error
\* of the semantic attempt; the search returns the recency fallback over the
\* entries fetched in step 1 and nothing surfaces to the caller.
C9_EmbeddingFaultFallsBack ==
    (last.op = "search" /\ last.embedFault) =>
        /\ last.status = "ok"
        /\ last.path = "fallback"
        /\ last.embedCalls = 1
        /\ last.result = Fallback(last.fetched, last.limit)

C9_Witness ==
    /\ last.op = "search"
    /\ last.embedFault
    /\ last.result # <<>>

\* A step that ends a turn of the chat session: the call of
\* analyze_personality_and_respond returns or raises.
TurnEnds ==
    /\ last'.op = "chat"
    /\ \/ chat = "Processing" /\ pc = "scrolled" /\ pc' = "idle"
       \/ chat = "AwaitingInput" /\ pc = "idle" /\ pc' = "idle" /\ last' # last

\* C10: per-turn failure isolation. A turn whose analysis raises ends in
\* AwaitingInput, like one that succeeds; Exited is entered only from
\* AwaitingInput by a termination token; a Processing session stays
\* Processing until its turn ends; and once Exited the session stays Exited
\* and starts no further retrieval or analysis.
C10_TurnFailureIsolation ==
    [][ /\ TurnEnds => chat' = "AwaitingInput"
        /\ (chat # "Exited" /\ chat' = "Exited") =>
               (chat = "AwaitingInput" /\ last'.op = "quit")
        /\ chat = "Processing" => chat' \in {"Processing", "AwaitingInput"}
        /\ chat = "Exited" =>
               (chat' = "Exited" /\ pc' = pc /\ frame' = frame
                /\ last'.op # "chat")
      ]_vars

C10_Witness ==
    /\ chat = "AwaitingInput"
    /\ last.op = "chat"
    /\ last.status = "raised"
    /\ last.error = "GenerationError"

\* Inputs that are empty once stripped, and the termination tokens.
Whitespace == {"", " "}
Terminators == {"quit", "exit", "bye"}

\* C11: turn discipline. An empty or whitespace-only input leaves the session
\* in AwaitingInput and starts no retrieval, embedding or completion call;
\* every other input that is no termination token starts one call of
\* analyze_personality_and_respond (one scroll, at most one embedding and one
\* completion call); and while that call is in flight no input is read: the
\* session stays Processing with the same call until the call ends.
C11_TurnDiscipline ==
    [][ /\ (last'.op = "empty" /\ last' # last) =>
               /\ last'.text \in Whitespace
               /\ chat = "AwaitingInput" /\ chat' = "AwaitingInput"
               /\ pc = "idle" /\ pc' = "idle" /\ frame' = frame
               /\ last'.embedCalls = 0 /\ last'.completionCalls = 0
        /\ (frame'.op = "chat" /\ frame # frame') =>
               /\ chat = "AwaitingInput" /\ chat' = "Processing"
               /\ frame'.query \notin Whitespace \cup Terminators
        /\ (last'.op = "chat" /\ last' # last) =>
               /\ last'.text \notin Whitespace \cup Terminators
               /\ last'.embedCalls <= 1 /\ last'.completionCalls <= 1
               /\ chat' = "AwaitingInput"
        /\ chat = "Processing" =>
               /\ pc = "scrolled" /\ frame.op = "chat"
               /\ last'.op \notin {"empty", "quit"}
               /\ \/ chat' = "Processing" /\ frame' = frame
                  \/ chat' = "AwaitingInput" /\ last'.op = "chat"
                     /\ last'.text = frame.query
      ]_vars

C11_Witness ==
    /\ chat = "AwaitingInput"
    /\ last.op = "empty"
    /\ last.text = " "
    /\ EntryCount(SessionUser) > 0

\* The schema of the feedback payload: a JSON object with the five fields
\* and an integer clarityScore in 0..MaxClarity.
Parseable(content) ==
    /\ content.json
    /\ content.fields = FeedbackFields
    /\ content.clarityScore \in 0 .. MaxClarity

\* C12: get_ai_feedback either returns a payload with the five fields and a
\* clarityScore in 0..10 or fails (GenerationError, MalformedResponseError);
\* generated text that does not parse into that schema is never returned as
\* a successful result.
C12_StructuredFeedback ==
    (last.op = "feedback") =>
        \/ last.status = "ok" /\ Parseable(last.content)
        \/ last.status = "raised"
            /\ last.error \in {"GenerationError", "MalformedResponseError"}

\* str.split(Separator): the parts between the occurrences of the separator.
RECURSIVE Split(_)
Split(s) ==
    IF \A i \in 1 .. Len(s) : s[i] # Separator THEN <<s>>
    ELSE LET i == CHOOSE k \in 1 .. Len(s) :
                      /\ s[k] = Separator
                      /\ \A j \in 1 .. k - 1 : s[j] # Separator
         IN <<SubSeq(s, 1, i - 1)>> \o Split(SubSeq(s, i + 1, Len(s)))

\* C13: context assembly is unambiguous and order-preserving. Splitting the
\* built context on the separator gives back exactly the entries it was built
\* from, in their order, also when a text contains the separator; and no
\* other sequence of entries builds the same context.
C13_ContextRoundTrip ==
    context.built =>
        /\ Split(context.journal_context) = context.entries
        /\ \A e \in EntryLists :
               Join(e) = context.journal_context => e = context.entries

\* C14: the store is append-only. Every step of store, search, feedback and
\* ask, successful or failed, keeps every persisted record under its id with
\* the same user, text, vector, timestamp and type; the store changes only
\* in a successful store_journal_entry, which adds exactly one record under
\* the id it generated; search, ask and feedback steps and failed stores
\* leave the store as it is.
C14_AppendOnly ==
    [][ /\ \A x \in DOMAIN store :
               x \in DOMAIN store' /\ store'[x] = store[x]
        /\ store' # store =>
               /\ \E id \in issued' \ issued :
                      DOMAIN store' = DOMAIN store \cup {id}
               /\ Cardinality(DOMAIN store') = Cardinality(DOMAIN store) + 1
               /\ pc' = pc /\ frame' = frame
               /\ last'.op \notin {"search", "ask", "feedback"} \/ last' = last
        /\ (last'.op = "store" /\ last'.status = "raised") => store' = store
        /\ (pc' # pc \/ frame' # frame) => store' = store
      ]_vars

C14_Witness ==
    /\ Cardinality(DOMAIN store) = MaxEntries
    /\ last.op = "feedback"
    /\ last.status = "raised"

\* C15: no retries. One call of analyze_personality_and_respond invokes the
\* completion provider at most once and embeds the query at most once, and
\* one call of get_ai_feedback invokes the completion provider at most once;
\* a failure of the completion provider leaves the call as GenerationError
\* after that single invocation, with no answer in its place.
C15_NoRetries ==
    (last.op \in {"ask", "feedback"}) =>
        /\ last.completionCalls <= 1
        /\ last.embedCalls <= 1
        /\ last.op = "feedback" => last.embedCalls = 0
        /\ last.completionFault =>
               /\ last.completionCalls = 1
               /\ last.status = "raised"
               /\ last.error = "GenerationError"
               /\ last.reply = "none"
               /\ last.content = NoContent

C15_Witness ==
    /\ last.op = "ask"
    /\ last.completionFault
    /\ last.path = "fallback"
    /\ last.embedCalls = 1

\* C16: collection reuse. A bootstrap against an index that holds the
\* collection creates nothing and leaves the collection and its records as
\* they are; and when the collection found has a vector size other than
\* EMBEDDING_DIM no process gets through its bootstrap, so no store or search
\* runs against it.
C16_CollectionReuse ==
    [][ /\ (collection.exists /\ boot' # boot) =>
               (collection' = collection /\ store' = store)
        /\ (collection'.preexisting /\ collection'.dim # EMBEDDING_DIM) =>
               /\ \A p \in Procs : boot'[p].pc # "ready"
               /\ last'.op \notin {"store", "search"}
      ]_vars

\* C20: concurrent bootstrap. When two processes bootstrap against an index
\* without the collection, in every interleaving the collection is created
\* once and neither bootstrap fails.
C20_ConcurrentBootstrap ==
    ~collection.preexisting =>
        /\ collection.creates <= 1
        /\ \A p \in Procs : boot[p].pc # "failed"
        /\ (\E p \in Procs : boot[p].pc = "ready") => collection.creates = 1

\* C17: failure isolation of the journaling flow. A fault of get_ai_feedback
\* or of store_journal_entry while main_menu handles "write a new journal
\* entry" is reported and the loop goes on to the next menu prompt: the
\* driver is never ended by it; and a feedback fault does not keep the entry
\* from being stored, the store is still called.
C17_JournalFailureIsolation ==
    /\ menu # "Crashed"
    /\ (last.op = "journal" /\ last.status = "raised") => menu = "Menu"
    /\ (last.op = "journal" /\ last.completionFault) => last.storeCalls = 1

\* The entries the fallback keeps: the recency-sorted entries cut by [:limit].
Kept(entries, limit) == PySliceTo(SortRecent(entries), limit)
Textless(entries) ==
    {i \in 1 .. Len(entries) : ~HasText(entries[i].page_content)}

\* C18 as stated: on the fallback path the textless entries are skipped
\* before the cut, so a search with a positive limit for a user whose
\* fetched entries include at least `limit` entries with text returns the
\* texts of the `limit` most recent entries that have text.
C18_FallbackFillsLimit ==
    (last.op = "search" /\ last.path = "fallback" /\ last.limit > 0) =>
        LET texts == SelectSeq(PageContents(SortRecent(last.fetched)), HasText)
        IN Len(texts) >= last.limit => last.result = Take(texts, last.limit)

\* C18 amended: on the fallback path the recency-sorted entries are cut by
\* [:limit] first and the textless ones among the kept are skipped after;
\* the result is the texts of the kept entries that have text, so every
\* textless entry among the kept makes the result one shorter, and with one
\* the result has fewer than `limit` texts.
C18_CutThenSkip ==
    (last.op \in Retrieval /\ last.path = "fallback") =>
        LET kept == Kept(last.fetched, last.limit)
        IN /\ last.result = SelectSeq(PageContents(kept), HasText)
           /\ Len(last.result) = Len(kept) - Cardinality(Textless(kept))
           /\ (last.limit >= 0 /\ Textless(kept) # {}) =>
                  Len(last.result) < last.limit

C18_Witness ==
    /\ last.op = "search"
    /\ last.path = "fallback"
    /\ last.limit = 1
    /\ last.result = <<>>
    /\ Textless(last.fetched) # DOMAIN last.fetched

\* C19 as stated: analyze_personality_and_respond gives the fixed reply only
\* for a user who owns no entry.
C19_SentinelOnlyWithoutEntries ==
    (last.op \in {"ask", "chat"} /\ last.reply = Sentinel) =>
        EntryCount(last.user) = 0

\* C19 amended: the fixed reply is given exactly when the retrieval returns
\* no text, without a completion call: for a user without entries, and on
\* the fallback path for a user none of whose kept entries has text. On the
\* semantic path a user with an entry always gets to the completion call.
C19_SentinelOnEmptyRetrieval ==
    (last.op \in {"ask", "chat"} /\ ~last.scanFault) =>
        /\ last.reply = Sentinel <=> last.result = <<>>
        /\ last.reply = Sentinel =>
               /\ last.status = "ok"
               /\ last.completionCalls = 0
               /\ \/ last.path = "empty" /\ last.fetched = <<>>
                  \/ /\ last.path = "fallback"
                     /\ LET kept == Kept(last.fetched, last.limit)
                        IN Textless(kept) = DOMAIN kept
        /\ last.path = "semantic" =>
               (last.reply # Sentinel /\ last.completionCalls = 1)

C19_Witness ==
    /\ last.op = "ask"
    /\ last.reply = Sentinel
    /\ last.path = "fallback"
    /\ EntryCount(last.user) > 0

====
